---- MODULE Spec2Model ----
(***************************************************************************)
(* Redux as a supervisor of xstate machines (src/src/App.tsx).             *)
(*                                                                         *)
(* The store state is a map of machine ids to Stations; stationsReducer    *)
(* routes every dispatched event to the station(s) it targets;             *)
(* useSupervisedMachine registers a machine, attaches / detaches its live  *)
(* interpreter and flushes the events queued while it was not mounted.     *)
(***************************************************************************)
EXTENDS Integers, Sequences, FiniteSets, TLC

VARIABLES
  stations,   \* the Redux store state: machine id -> Station (own properties)
  interp,     \* machine id -> current state of the interpreter useMachine made
  sent,       \* machine id -> the events the interpreters of that id received
  routed,     \* machine id -> the events components dispatched to that id
  mounted,    \* ids of the components currently mounted
  toMount,    \* ids of the components React is about to mount
  toUnmount,  \* ids of the components React is about to unmount
  prev,       \* the store state and interpreters before the last dispatch
  lastEv,     \* the last event handed to store.dispatch
  raised,     \* whether the last dispatch or effect threw
  drained,    \* the last flush of an event queue: id, queue, state at render
  lastOp,     \* the last operation: kind, id, whether it flushed a queue
  nOps,       \* number of user dispatches so far
  registrations, \* machine id -> the registrations the hook dispatched for it
  lastRaw     \* the last event a component handed to its send function

vars == <<stations, interp, sent, routed, mounted, toMount, toUnmount,
          prev, lastEv, raised, drained, lastOp, nOps, registrations, lastRaw>>

----------------------------------------------------------------------------
(* Bounds of the model *)

\* user dispatches per behaviour of Spec
MaxOps == 4
\* dispatches per behaviour of RouterSpec
MaxApply == 2
\* events the components send per behaviour of SendSpec
MaxSend == 2

----------------------------------------------------------------------------
(* Machines *)

\* the ids of the application: the toggle and the four inputs
ToggleId == "provinceOrState"
InputIds == {"Country", "Province", "State", "City"}
AppIds == {ToggleId} \cup InputIds

\* a name every plain object inherits from Object.prototype
ProtoKeys == {"constructor"}

MachineOf(id) == IF id = ToggleId THEN "toggle" ELSE "input"

Undefined == "undefined"

\* a machine state: its state value (mode, and valid for the input's second
\* region) and its context value (text)
MState(mode, valid, text) == [mode |-> mode, valid |-> valid, text |-> text]

\* str.trim(), on the strings of the model
Trim(str) == IF str = " " THEN "" ELSE str

\* isValid: (str) => !!str && !!str.trim()
isValid(str) == str # "" /\ Trim(str) # ""

\* createToggleMachine: initial: "NO"
toggleInitialState == MState("NO", Undefined, Undefined)

\* createInputMachine: untouched, invalid, no value yet
inputInitialState == MState("untouched", "invalid", "")

\* machine.initialState
initialState(machine) ==
  IF machine = "toggle" THEN toggleInitialState ELSE inputInitialState

\* toggleTransition flipping on every event
toggleOnAnyEvent(st, event) ==
  [st EXCEPT !.mode = IF st.mode = "NO" THEN "YES" ELSE "NO"]

\* createToggleMachine: YES and NO, TOGGLE flips, nothing else is handled
toggleTransition(st, event) ==
  IF event.type = "TOGGLE"
  THEN [st EXCEPT !.mode = IF st.mode = "NO" THEN "YES" ELSE "NO"]
  ELSE st

\* createInputMachine: CHANGE stores the value and revalidates it, BLUR
\* marks the input touched, nothing else is handled
inputTransition(st, event) ==
  IF event.type = "CHANGE"
  THEN [st EXCEPT !.text = event.value,
                  !.valid = IF isValid(event.value) THEN "valid" ELSE "invalid"]
  ELSE IF event.type = "BLUR" THEN [st EXCEPT !.mode = "touched"]
  ELSE st

\* service.send(event): the next state and its changed flag
send(machine, st, event) ==
  LET next == IF machine = "toggle" THEN toggleTransition(st, event)
              ELSE inputTransition(st, event)
  IN  [state |-> next, changed |-> next # st]

----------------------------------------------------------------------------
(* Events *)

\* { type, value, to: id }
Single(type, value, to) ==
  [type |-> type, value |-> value, to |-> <<to>>, isArray |-> FALSE]

\* { type, value, to: [ids] }
Multi(type, value, ids) ==
  [type |-> type, value |-> value, to |-> ids, isArray |-> TRUE]

Batched(events) == [type |-> "BATCHED", events |-> events]

Register(station) == [type |-> "REGISTER_MACHINE", payload |-> station]

isBatchedEvent(event) == event.type = "BATCHED"

isRegisterEvent(event) == event.type = "REGISTER_MACHINE"

----------------------------------------------------------------------------
(* Stations and the store *)

\* the Station the hook builds for a machine that is not in the store
NewStation(id) ==
  [id |-> id, machine |-> MachineOf(id), service |-> FALSE,
   eventQueue |-> <<>>, state |-> initialState(MachineOf(id))]

\* what the reducers and the effects work on: the store state, the
\* interpreters service.send acts on, whether they threw, and how often the
\* hook dispatched a registration of each machine
World(st, ip, sn) ==
  [stations |-> st, interp |-> ip, sent |-> sn, error |-> FALSE,
   regs |-> [id \in AppIds |-> 0]]

\* state[event.to] on a plain object: an own property, else a member
\* inherited from Object.prototype, else undefined
Lookup(state, id) ==
  IF id \in DOMAIN state THEN "own"
  ELSE IF id \in ProtoKeys THEN "inherited"
  ELSE "none"

Log(log, id, event) ==
  IF id \in DOMAIN log THEN [log EXCEPT ![id] = Append(@, event)] ELSE log

\* stationReducer parking an event in front of the queue
stationReducerPrepend(state, event, sv) ==
  IF state.service
  THEN LET next == send(state.machine, sv, event)
       IN  [station |-> IF next.changed
                        THEN [state EXCEPT !.state = next.state]
                        ELSE state,
            sv |-> next.state, sent |-> TRUE]
  ELSE [station |-> [state EXCEPT !.eventQueue = <<event>> \o @],
        sv |-> sv, sent |-> FALSE]

\* stationReducer parking an event in place of the queue
stationReducerReplace(state, event, sv) ==
  IF state.service
  THEN LET next == send(state.machine, sv, event)
       IN  [station |-> IF next.changed
                        THEN [state EXCEPT !.state = next.state]
                        ELSE state,
            sv |-> next.state, sent |-> TRUE]
  ELSE [station |-> [state EXCEPT !.eventQueue = <<event>>],
        sv |-> sv, sent |-> FALSE]

\* stationReducer never storing the next state of a live station
stationReducerKeepsOld(state, event, sv) ==
  IF state.service
  THEN LET next == send(state.machine, sv, event)
       IN  [station |-> state, sv |-> next.state, sent |-> TRUE]
  ELSE [station |-> [state EXCEPT !.eventQueue = Append(@, event)],
        sv |-> sv, sent |-> FALSE]

\* stationReducer with the interpreter it sends to: a live station passes
\* the event to its service and keeps the next state when it changed, a
\* station that is not live parks the event in its queue
stationReducer(state, event, sv) ==
  IF state.service
  THEN LET next == send(state.machine, sv, event)
       IN  [station |-> IF next.changed
                        THEN [state EXCEPT !.state = next.state]
                        ELSE state,
            sv |-> next.state, sent |-> TRUE]
  ELSE [station |-> [state EXCEPT !.eventQueue = Append(@, event)],
        sv |-> sv, sent |-> FALSE]

\* routeSingle handing the event to the station of the toggle as well
routeSingleAlsoToggle(state, event) ==
  LET to == event.to[1]
      station == Lookup(state.stations, to)
  IN  IF station = "none" THEN state
      ELSE IF station = "inherited" THEN [state EXCEPT !.error = TRUE]
      ELSE LET r == stationReducer(state.stations[to], event, state.interp[to])
               s == [state EXCEPT !.stations[to] = r.station,
                                  !.interp[to] = r.sv,
                                  !.sent = IF r.sent THEN Log(@, to, event) ELSE @]
           IN  IF to = ToggleId \/ ToggleId \notin DOMAIN s.stations THEN s
               ELSE LET t == stationReducer(s.stations[ToggleId], event,
                                            s.interp[ToggleId])
                    IN  [s EXCEPT !.stations[ToggleId] = t.station,
                                  !.interp[ToggleId] = t.sv,
                                  !.sent = IF t.sent THEN Log(@, ToggleId, event)
                                           ELSE @]

\* the last branch of stationsReducer: one event with one target
routeSingle(state, event) ==
  LET to == event.to[1]
      station == Lookup(state.stations, to)
  IN  IF station = "none" THEN state
      ELSE IF station = "inherited"
           \* stationReducer spreads the eventQueue of a member of
           \* Object.prototype, which is not iterable
           THEN [state EXCEPT !.error = TRUE]
      ELSE LET r == stationReducer(state.stations[to], event, state.interp[to])
           IN  [state EXCEPT !.stations[to] = r.station,
                             !.interp[to] = r.sv,
                             !.sent = IF r.sent THEN Log(@, to, event) ELSE @]

\* expandTargets giving every copy the first target
expandToFirst(event) ==
  [i \in 1..Len(event.to) |-> [event EXCEPT !.to = <<event.to[1]>>,
                                             !.isArray = FALSE]]

\* event.to.map(id => ({ ...event, to: id }))
expandTargets(event) ==
  [i \in 1..Len(event.to) |-> [event EXCEPT !.to = <<event.to[i]>>,
                                             !.isArray = FALSE]]

\* registerStation keeping an entry the store already has
registerKeepsExisting(state, event) ==
  [state EXCEPT !.stations = @ @@ (event.payload.id :> event.payload)]

\* { ...state, [event.payload.id]: event.payload }
registerStation(state, event) ==
  [state EXCEPT !.stations = (event.payload.id :> event.payload) @@ @]

RECURSIVE stationsReducer(_, _)
RECURSIVE reduceEvents(_, _)

\* reduceEvents reducing every member from the state the batch started in
reduceFromStart(acc, events) ==
  IF events = <<>> \/ acc.error THEN acc
  ELSE stationsReducer(acc, events[Len(events)])

\* event.events.reduce((acc, next) => stationsReducer(acc, next), state);
\* an exception ends the fold
reduceEvents(acc, events) ==
  IF events = <<>> \/ acc.error THEN acc
  ELSE reduceEvents(stationsReducer(acc, Head(events)), Tail(events))

\* the Redux store reducer
stationsReducer(state, event) ==
  IF isBatchedEvent(event) THEN reduceEvents(state, event.events)
  ELSE IF isRegisterEvent(event) THEN registerStation(state, event)
  ELSE IF event.isArray THEN stationsReducer(state, Batched(expandTargets(event)))
  ELSE routeSingle(state, event)

\* store.dispatch(event): the reducer's result becomes the store state,
\* unless the reducer threw; what service.send did to an interpreter stays
dispatch(w, event) ==
  LET r == stationsReducer([w EXCEPT !.error = FALSE], event)
  IN  IF r.error THEN [r EXCEPT !.stations = w.stations] ELSE r

----------------------------------------------------------------------------
(* useSupervisedMachine *)

\* render: the station of the machine in the store, or a new one
isNew(w, id) == Lookup(w.stations, id) = "none"

maybeStation(w, id) == IF isNew(w, id) THEN NewStation(id) ELSE w.stations[id]

\* registerEffect never dispatching the registration
registerNever(w, id) == w

\* registerEffect dispatching the registration after every render
registerEveryRender(w, id) ==
  [dispatch(w, Register(maybeStation(w, id))) EXCEPT !.regs[id] = @ + 1]

\* the first effect: a machine that was not in the store at render is
\* registered with the station built at render
registerEffect(w, id) ==
  IF isNew(w, id)
  THEN [dispatch(w, Register(maybeStation(w, id))) EXCEPT !.regs[id] = @ + 1]
  ELSE w

\* startState ignoring the station: the machine's own initial state
startFromInitial(station) == initialState(station.machine)

\* useMachine(machine, { state: maybeStation.state }): a new interpreter,
\* started from the state of the station
startState(station) == station.state

\* useMachine without its options: the interpreter starts from the
\* machine's initial state
useMachineFresh(w, id, station) ==
  [w EXCEPT !.interp[id] = initialState(station.machine)]

useMachine(w, id, station) == [w EXCEPT !.interp[id] = startState(station)]

\* the second effect: store.getState()[id].service = service, a TypeError
\* when the store has no station of that id
attachEffect(w, id) ==
  IF isNew(w, id) THEN [w EXCEPT !.error = TRUE]
  ELSE [w EXCEPT !.stations[id].service = TRUE]

\* detachEffect putting the machine's initial state back in the station
detachForgetsState(w, id) ==
  IF isNew(w, id) THEN [w EXCEPT !.error = TRUE]
  ELSE [w EXCEPT !.stations[id].service = FALSE,
                 !.stations[id].state = initialState(MachineOf(id))]

\* its cleanup: store.getState()[id].service = undefined
detachEffect(w, id) ==
  IF isNew(w, id) THEN [w EXCEPT !.error = TRUE]
  ELSE [w EXCEPT !.stations[id].service = FALSE]

\* spliceQueue reading the queue without emptying it
spliceKeeps(w, id) == w

\* maybeStation.eventQueue.splice(0, length): the queue array of the
\* station read at render is emptied in place and its events are returned;
\* no event is appended between a render and its effects, so the array is
\* the one the station in the store holds
spliceQueue(w, id) == [w EXCEPT !.stations[id].eventQueue = <<>>]

\* drainEffect emptying the queue without dispatching its events
drainDiscards(w, id) ==
  IF Len(maybeStation(w, id).eventQueue) > 0 THEN spliceQueue(w, id) ELSE w

\* the third effect: flush the queue as one batch
drainEffect(w, id) ==
  LET queue == maybeStation(w, id).eventQueue
  IN  IF Len(queue) > 0
      THEN dispatch(spliceQueue(w, id), Batched(queue))
      ELSE w

\* mountHook without the third effect
mountWithoutDrain(w, id) ==
  LET station == maybeStation(w, id)
      w1 == registerEffect(w, id)
      w2 == useMachine(w1, id, station)
  IN  attachEffect(w2, id)

\* a component mounts: render, then its effects in the order of the hook
mountHook(w, id) ==
  LET station == maybeStation(w, id)
      w1 == registerEffect(w, id)
      w2 == useMachine(w1, id, station)
      w3 == attachEffect(w2, id)
  IN  drainEffect(w3, id)

\* a mounted component renders again: the effects without dependencies run
rerenderHook(w, id) == drainEffect(registerEffect(w, id), id)

RECURSIVE rerenderAll(_, _)
rerenderAll(w, ids) ==
  IF ids = {} THEN w
  ELSE LET id == CHOOSE i \in ids : TRUE
       IN  rerenderAll(rerenderHook(w, id), ids \ {id})

\* what a component hands to its send function: a type name, an event
\* object with or without a target, or an array of those
RawString(type) == [shape |-> "string", type |-> type]

RawObject(type, value, to) ==
  [shape |-> "object", type |-> type, value |-> value, to |-> to]

RawArray(events) == [shape |-> "array", events |-> events]

\* the to of an event object: absent, one id, or a list of ids
NoTarget == [kind |-> "absent"]

ToId(id) == [kind |-> "id", id |-> id]

ToIds(ids) == [kind |-> "list", ids |-> ids]

\* the left operand of `to || id` decides: undefined and the empty string do
\* not, any other string and any array do
Truthy(to) == to.kind = "list" \/ (to.kind = "id" /\ to.id # "")

\* dispatchableEvent: { type, to: id } for a type name, and
\* { ...event, type: event.type, to: event.to || id } for an event object
dispatchable(id, event) ==
  IF event.shape = "string" THEN Single(event.type, Undefined, id)
  ELSE IF ~Truthy(event.to) THEN Single(event.type, event.value, id)
  ELSE IF event.to.kind = "list" THEN Multi(event.type, event.value, event.to.ids)
  ELSE Single(event.type, event.value, event.to.id)

\* sendToStore: the event it hands to dispatch; an array becomes one batch
\* of the dispatchable events of its members
sendToStore(id, event) ==
  IF event.shape = "array"
  THEN Batched([i \in 1..Len(event.events) |-> dispatchable(id, event.events[i])])
  ELSE dispatchable(id, event)

----------------------------------------------------------------------------
(* The application *)

Values == {"a"}

\* <Input key={stateNotProvince.matches("YES") ? "State" : "Province"} />
regionOf(ip) == IF ip[ToggleId].mode = "YES" THEN "State" ELSE "Province"
Regions == {"Province", "State"}

\* sendStateNotProvince("TOGGLE")
ToggleEvent == Single("TOGGLE", Undefined, ToggleId)

\* ChangeEvent with a Country that leaves City out of its targets
ChangeEventKeepsCity(id, value) ==
  IF id = "Country"
  THEN Batched(<<Single("CHANGE", value, id),
                 Multi("CHANGE", "", <<"State", "Province">>)>>)
  ELSE IF id \in Regions
  THEN Batched(<<Single("CHANGE", value, id), Single("CHANGE", "", "City")>>)
  ELSE Single("CHANGE", value, id)

\* the onChange of an Input: its own CHANGE, and the events its onChange
\* prop adds, sent as one array
ChangeEvent(id, value) ==
  IF id = "Country"
  THEN Batched(<<Single("CHANGE", value, id),
                 Multi("CHANGE", "", <<"State", "Province", "City">>)>>)
  ELSE IF id \in Regions
  THEN Batched(<<Single("CHANGE", value, id), Single("CHANGE", "", "City")>>)
  ELSE Single("CHANGE", value, id)

\* onFocus: send("FOCUS"), onBlur: send("BLUR")
FocusEvent(id) == Single("FOCUS", Undefined, id)

BlurEvent(id) == Single("BLUR", Undefined, id)

\* send with an explicit target: one event, or an array of two
SentTo(to) ==
  {Single("BLUR", Undefined, to),
   Batched(<<Single("CHANGE", "a", to), Single("BLUR", Undefined, to)>>)}

EmptyStations == [id \in {} |-> NewStation(id)]
EmptyLog == [id \in AppIds |-> <<>>]
NoDrain == [id |-> "", queue |-> <<>>, state |-> initialState("toggle")]
ReduxInit == Single("@@redux/INIT", Undefined, Undefined)
NoRaw == [shape |-> "none"]

current == [World(stations, interp, sent) EXCEPT !.regs = registrations]

Snapshot(w) == [stations |-> w.stations, interp |-> w.interp]

Store(w) ==
  /\ stations' = w.stations
  /\ interp' = w.interp
  /\ sent' = w.sent
  /\ registrations' = w.regs

\* the single events an event stands for, in the order of its members and
\* of its targets
RECURSIVE Flatten(_)
Flatten(event) ==
  IF isBatchedEvent(event)
  THEN IF event.events = <<>> THEN <<>>
       ELSE Flatten(Head(event.events)) \o Flatten(Batched(Tail(event.events)))
  ELSE IF isRegisterEvent(event) THEN <<>>
  ELSE [i \in 1..Len(event.to) |-> Single(event.type, event.value, event.to[i])]

\* the events of a dispatch that name a registered machine, by machine
RECURSIVE LogAll(_, _, _)
LogAll(log, events, registered) ==
  IF events = <<>> THEN log
  ELSE LET e == Head(events)
           id == e.to[1]
       IN  LogAll(IF id \in registered THEN Log(log, id, e) ELSE log,
                  Tail(events), registered)

\* createStore(stationsReducer): an empty store; render(<App />) is about
\* to mount the application with the toggle in NO
Init ==
  /\ stations = EmptyStations
  /\ interp = [id \in AppIds |-> initialState(MachineOf(id))]
  /\ sent = EmptyLog
  /\ registrations = [id \in AppIds |-> 0]
  /\ routed = EmptyLog
  /\ mounted = {}
  /\ toMount = {ToggleId, "Country", "Province", "City"}
  /\ toUnmount = {}
  /\ prev = Snapshot(current)
  /\ lastEv = ReduxInit
  /\ raised = FALSE
  /\ drained = NoDrain
  /\ lastOp = [kind |-> "init", id |-> "", drained |-> FALSE]
  /\ nOps = 0
  /\ lastRaw = NoRaw

Idle == toMount = {} /\ toUnmount = {}

\* the flush a mount or a render of id is about to do, if any
DrainOf(w, id) ==
  IF id \in DOMAIN w.stations /\ Len(w.stations[id].eventQueue) > 0
  THEN [id |-> id, queue |-> w.stations[id].eventQueue,
        state |-> w.stations[id].state]
  ELSE NoDrain

\* React mounts a component that uses the hook: its render and then its
\* three effects, which React runs one after the other in one flush, before
\* any other event handler
Mount(id) ==
  /\ id \in toMount
  /\ LET w == mountHook(current, id)
         d == DrainOf(current, id)
     IN  /\ Store(w)
         /\ drained' = IF d.id = "" THEN drained ELSE d
         /\ lastOp' = [kind |-> "mount", id |-> id, drained |-> d.id # ""]
         /\ raised' = w.error
         /\ prev' = IF d.id # "" THEN Snapshot(spliceQueue(attachEffect(current, id), id))
                    ELSE IF isNew(current, id) THEN Snapshot(current)
                    ELSE prev
         /\ lastEv' = IF d.id # "" THEN Batched(d.queue)
                      ELSE IF isNew(current, id) THEN Register(NewStation(id))
                      ELSE lastEv
  /\ mounted' = mounted \cup {id}
  /\ toMount' = toMount \ {id}
  /\ UNCHANGED <<toUnmount, routed, nOps, lastRaw>>

\* React unmounts a component that uses the hook: the cleanup of the
\* second effect
Unmount(id) ==
  /\ id \in toUnmount
  /\ LET w == detachEffect(current, id)
     IN  /\ Store(w)
         /\ raised' = w.error
  /\ mounted' = mounted \ {id}
  /\ toUnmount' = toUnmount \ {id}
  /\ lastOp' = [kind |-> "unmount", id |-> id, drained |-> FALSE]
  /\ UNCHANGED <<toMount, routed, prev, lastEv, drained, nOps, lastRaw>>

\* the application renders again without any event
Rerender ==
  /\ Idle
  /\ mounted # {}
  /\ LET w == rerenderAll(current, mounted)
     IN  /\ Store(w)
         /\ raised' = w.error
  /\ lastOp' = [kind |-> "render", id |-> "", drained |-> FALSE]
  /\ UNCHANGED <<mounted, toMount, toUnmount, routed, prev, lastEv, drained, nOps,
                 lastRaw>>

\* a component sends an event: the store reduces it, the components whose
\* interpreter changed render again, and a flip of the toggle swaps the
\* Province and State inputs
Dispatch(event) ==
  /\ Idle
  /\ nOps < MaxOps
  /\ LET r == dispatch(current, event)
         changed == {id \in mounted : r.interp[id] # interp[id]}
         w == rerenderAll(r, changed)
         region == regionOf(w.interp)
     IN  /\ Store(w)
         /\ raised' = r.error
         /\ toUnmount' = (mounted \cap Regions) \ {region}
         /\ toMount' = {region} \ mounted
  /\ routed' = LogAll(routed, Flatten(event), DOMAIN stations)
  /\ prev' = Snapshot(current)
  /\ lastEv' = event
  /\ lastOp' = [kind |-> "dispatch", id |-> "", drained |-> FALSE]
  /\ nOps' = nOps + 1
  /\ UNCHANGED <<mounted, drained, lastRaw>>

Toggle == ToggleId \in mounted /\ Dispatch(ToggleEvent)

Change == \E id \in mounted \cap InputIds : \E value \in Values :
            Dispatch(ChangeEvent(id, value))

Focus == \E id \in mounted \cap InputIds : Dispatch(FocusEvent(id))

Blur == \E id \in mounted \cap InputIds : Dispatch(BlurEvent(id))

SendTo == \E to \in Regions : \E event \in SentTo(to) : Dispatch(event)

Next ==
  \/ \E id \in AppIds : Mount(id)
  \/ \E id \in AppIds : Unmount(id)
  \/ Rerender
  \/ Toggle
  \/ Change
  \/ Focus
  \/ Blur
  \/ SendTo

Spec == Init /\ [][Next]_vars

----------------------------------------------------------------------------
(* The toggle by itself: the checkbox, and events other components send    *)
(* with the toggle as their target                                         *)

ToToggle ==
  {Single("CHANGE", "a", ToggleId),
   Multi("TOGGLE", Undefined, <<ToggleId, ToggleId>>),
   Batched(<<Single("TOGGLE", Undefined, ToggleId),
             Single("BLUR", Undefined, ToggleId)>>)}

\* a component sends an event with to: "provinceOrState"
Poke == \E event \in ToToggle : Dispatch(event)

ToggleNext ==
  \/ \E id \in AppIds : Mount(id)
  \/ \E id \in AppIds : Unmount(id)
  \/ Rerender
  \/ Toggle
  \/ Poke

ToggleSpec == Init /\ [][ToggleNext]_vars

----------------------------------------------------------------------------
(* The router by itself: any event, on any registry the hook and the       *)
(* router can build                                                        *)

\* machines a component may mount, and the targets an event may name: the
\* two machines, a machine that is never registered, and a name inherited
\* from Object.prototype
RouterIds == {ToggleId, "City"}
RouterTargets == RouterIds \cup {"Country"} \cup ProtoKeys

RouterSingles ==
  {Single("TOGGLE", Undefined, to) : to \in RouterTargets}
    \cup {Single("CHANGE", "a", to) : to \in RouterTargets}

TargetLists ==
  {<<>>, <<"City", ToggleId>>, <<ToggleId, "City">>, <<"City", "City">>,
   <<"Country", "City">>, <<"City", "constructor", ToggleId>>}

RouterMultis ==
  {Multi("TOGGLE", Undefined, ids) : ids \in TargetLists}
    \cup {Multi("CHANGE", "a", ids) : ids \in {<<"City", ToggleId>>, <<"City", "City">>}}

\* a registration of a machine, as the hook sends it or with another state
RouterRegisters ==
  {Register(NewStation(id)) : id \in RouterIds}
    \cup {Register([NewStation("City") EXCEPT !.state = MState("touched", "valid", "a")])}

RouterBatches ==
  {Batched(<<>>),
   Batched(<<Single("CHANGE", "a", "City"), Single("BLUR", Undefined, "City")>>),
   Batched(<<Single("BLUR", Undefined, "City"), Single("CHANGE", "a", "City")>>),
   Batched(<<Single("TOGGLE", Undefined, ToggleId),
             Multi("CHANGE", "", <<"City", ToggleId>>)>>),
   Batched(<<Batched(<<Single("CHANGE", "a", "City"),
                       Single("TOGGLE", Undefined, ToggleId)>>),
             Single("BLUR", Undefined, "City")>>),
   Batched(<<Register(NewStation("City")), Single("CHANGE", "a", "City")>>),
   Batched(<<Single("CHANGE", "a", "City"), Single("TOGGLE", Undefined, "constructor"),
             Single("BLUR", Undefined, "City")>>)}

RouterEvents == RouterSingles \cup RouterMultis \cup RouterRegisters \cup RouterBatches

RouterInit ==
  /\ stations = EmptyStations
  /\ interp = [id \in AppIds |-> initialState(MachineOf(id))]
  /\ sent = EmptyLog
  /\ registrations = [id \in AppIds |-> 0]
  /\ routed = EmptyLog
  /\ mounted = {}
  /\ toMount = {}
  /\ toUnmount = {}
  /\ prev = Snapshot(current)
  /\ lastEv = ReduxInit
  /\ raised = FALSE
  /\ drained = NoDrain
  /\ lastOp = [kind |-> "init", id |-> "", drained |-> FALSE]
  /\ nOps = 0
  /\ lastRaw = NoRaw

\* store.dispatch(event)
Apply(event) ==
  /\ nOps < MaxApply
  /\ LET r == dispatch(current, event)
     IN  /\ stations' = r.stations
         /\ interp' = r.interp
         /\ raised' = r.error
  /\ prev' = Snapshot(current)
  /\ lastEv' = event
  /\ lastOp' = [kind |-> "apply", id |-> "", drained |-> FALSE]
  /\ nOps' = nOps + 1
  /\ UNCHANGED <<sent, routed, mounted, toMount, toUnmount, drained,
                 registrations, lastRaw>>

\* a component that uses the hook mounts (the logs of events are not kept
\* in this specification)
HookMount(id) ==
  /\ id \notin mounted
  /\ LET w == mountHook(current, id)
     IN  /\ stations' = w.stations
         /\ interp' = w.interp
         /\ registrations' = w.regs
  /\ mounted' = mounted \cup {id}
  /\ lastOp' = [kind |-> "hook", id |-> "", drained |-> FALSE]
  /\ UNCHANGED <<sent, routed, toMount, toUnmount, prev, lastEv, raised, drained,
                 nOps, lastRaw>>

\* a component that uses the hook unmounts
HookUnmount(id) ==
  /\ id \in mounted
  /\ stations' = detachEffect(current, id).stations
  /\ mounted' = mounted \ {id}
  /\ lastOp' = [kind |-> "hook", id |-> "", drained |-> FALSE]
  /\ UNCHANGED <<interp, sent, routed, toMount, toUnmount, prev, lastEv, raised,
                 drained, nOps, registrations, lastRaw>>

RouterNext ==
  \/ \E event \in RouterEvents : Apply(event)
  \/ \E id \in RouterIds : HookMount(id)
  \/ \E id \in RouterIds : HookUnmount(id)

RouterSpec == RouterInit /\ [][RouterNext]_vars

----------------------------------------------------------------------------
(* The send function of the hook: any event a component may hand to it     *)

RawEvents ==
  {RawString("TOGGLE"), RawString("BLUR"),
   RawObject("CHANGE", "a", NoTarget),
   RawObject("CHANGE", "", ToId("City")),
   RawObject("TOGGLE", Undefined, ToId(ToggleId)),
   RawObject("TOGGLE", Undefined, ToId("")),
   RawObject("CHANGE", "", ToIds(<<"City", ToggleId>>)),
   RawObject("TOGGLE", Undefined, ToIds(<<>>)),
   RawArray(<<>>),
   RawArray(<<RawString("BLUR"), RawObject("CHANGE", "a", NoTarget)>>),
   RawArray(<<RawObject("CHANGE", "a", NoTarget),
              RawObject("CHANGE", "", ToId("City"))>>),
   RawArray(<<RawObject("CHANGE", "", ToIds(<<ToggleId, "City">>)),
              RawString("TOGGLE")>>)}

\* a mounted component calls send(event): sendToStore dispatches the
\* event it makes of it (a live station has nothing queued, so the renders
\* that follow flush nothing)
Send(id, event) ==
  /\ id \in mounted
  /\ nOps < MaxSend
  /\ LET r == dispatch(current, sendToStore(id, event))
     IN  /\ stations' = r.stations
         /\ interp' = r.interp
         /\ raised' = r.error
  /\ prev' = Snapshot(current)
  /\ lastEv' = sendToStore(id, event)
  /\ lastRaw' = event
  /\ lastOp' = [kind |-> "send", id |-> id, drained |-> FALSE]
  /\ nOps' = nOps + 1
  /\ UNCHANGED <<sent, routed, mounted, toMount, toUnmount, drained, registrations>>

SendNext ==
  \/ \E id \in RouterIds : \E event \in RawEvents : Send(id, event)
  \/ \E id \in RouterIds : HookMount(id)
  \/ \E id \in RouterIds : HookUnmount(id)

SendSpec == RouterInit /\ [][SendNext]_vars

----------------------------------------------------------------------------
(* Properties of the supervisor *)

Range(seq) == {seq[i] : i \in DOMAIN seq}

Count(seq, e) == Cardinality({i \in DOMAIN seq : seq[i] = e})

IsPrefix(s, t) == Len(s) <= Len(t) /\ SubSeq(t, 1, Len(s)) = s

\* the events of a machine that wait for it to mount
Waiting(id) == IF id \in mounted THEN <<>> ELSE stations[id].eventQueue

\* the state of a fresh interpreter started from st after the events
RECURSIVE Replay(_, _, _)
Replay(machine, st, events) ==
  IF events = <<>> THEN st
  ELSE Replay(machine, send(machine, st, Head(events)).state, Tail(events))

\* C1: every event dispatched to a registered machine has been delivered to
\* an interpreter of that machine, or the machine is not mounted and the
\* event waits in its queue; once the machine is mounted none waits
NoEventLost ==
  \A id \in DOMAIN stations : \A e \in Range(routed[id]) :
    Count(routed[id], e) <= Count(sent[id], e) + Count(Waiting(id), e)

\* a machine has mounted and received the two or more events that were
\* queued while it was not mounted
QueuedEventsDelivered ==
  /\ lastOp.kind = "mount" /\ lastOp.drained
  /\ Len(drained.queue) >= 2
  /\ \A e \in Range(drained.queue) :
       Count(sent[lastOp.id], e) = Count(routed[lastOp.id], e)

\* C2: a station with a live interpreter has an empty event queue
LiveMeansEmptyQueue ==
  \A id \in DOMAIN stations :
    stations[id].service => stations[id].eventQueue = <<>>

\* a station that had events queued is live
LiveAfterQueueing ==
  /\ lastOp.kind = "mount" /\ lastOp.drained
  /\ stations[lastOp.id].service
  /\ drained.queue # <<>>

\* C3: the interpreters of a machine receive the events dispatched to it in
\* the order of their dispatch
InDispatchOrder ==
  \A id \in DOMAIN stations : IsPrefix(sent[id], routed[id])

\* a machine has received, after mounting, two different events that were
\* queued in that order, following events it had received live
FlushedInOrder ==
  /\ lastOp.kind = "mount" /\ lastOp.drained
  /\ Len(drained.queue) >= 2
  /\ drained.queue[1] # drained.queue[2]
  /\ Len(sent[lastOp.id]) > Len(drained.queue)
  /\ sent[lastOp.id] = routed[lastOp.id]

\* C5: after a mount or a further render every queued event of a mounted
\* machine has been delivered as many times as it was dispatched, and the
\* queue is empty
ExactlyOnceDrain ==
  lastOp.kind \in {"mount", "render"} =>
    \A id \in mounted :
      /\ stations[id].eventQueue = <<>>
      /\ \A e \in Range(sent[id]) : Count(sent[id], e) = Count(routed[id], e)

\* the application has rendered again after the flush of a queue, the
\* machine still mounted
RenderedAfterDrain ==
  /\ lastOp.kind = "render"
  /\ drained.id \in mounted
  /\ drained.queue # <<>>
  /\ Range(drained.queue) \subseteq Range(sent[drained.id])

\* C6: after the flush of a queue the stored state of the station is the
\* state of a fresh interpreter started from the state stored before the
\* flush and sent the queued events in order
ReplayEquivalence ==
  lastOp.drained =>
    stations[lastOp.id].state =
      Replay(stations[lastOp.id].machine, drained.state, drained.queue)

\* a flush has changed the stored state of a station that was not in its
\* initial state
ReplayedFromStoredState ==
  /\ lastOp.drained
  /\ drained.state # initialState(MachineOf(lastOp.id))
  /\ stations[lastOp.id].state # drained.state
  /\ Len(drained.queue) >= 2

----------------------------------------------------------------------------
(* Properties of the router *)

\* the arguments and the outcome of the last dispatch
prevWorld == World(prev.stations, prev.interp, EmptyLog)

Applied == lastOp.kind = "apply"

Outcome == [stations |-> stations, interp |-> interp, error |-> raised]

\* what a reduction leaves behind: a store state, unless it threw
Result(r, w) ==
  [stations |-> IF r.error THEN w.stations ELSE r.stations,
   interp |-> r.interp, error |-> r.error]

\* the router applied to one event after the other, each on the registry
\* the one before returned
RECURSIVE applyInOrder(_, _)
applyInOrder(w, events) ==
  IF events = <<>> \/ w.error THEN w
  ELSE applyInOrder(stationsReducer(w, Head(events)), Tail(events))

IsPlain(event) == ~isBatchedEvent(event) /\ ~isRegisterEvent(event)

IsSingle(event) == IsPlain(event) /\ ~event.isArray

IsMulti(event) == IsPlain(event) /\ event.isArray

\* one copy of the event for each identity of its target list
Copies(event) ==
  [i \in 1..Len(event.to) |-> Single(event.type, event.value, event.to[i])]

\* C4: a single-target event applied to a registered station without a live
\* interpreter is appended to the tail of its queue: the queue before is a
\* prefix of the queue after, which is one longer and ends with the event
QueueAppend ==
  Applied /\ IsSingle(lastEv) /\ lastEv.to[1] \in DOMAIN prev.stations
          /\ ~prev.stations[lastEv.to[1]].service =>
    LET before == prev.stations[lastEv.to[1]].eventQueue
        after == stations[lastEv.to[1]].eventQueue
    IN  /\ Len(after) = Len(before) + 1
        /\ IsPrefix(before, after)
        /\ after[Len(after)] = lastEv

\* an event was appended to a queue that held a different event
AppendedBehind ==
  /\ Applied /\ IsSingle(lastEv) /\ lastEv.to[1] \in DOMAIN prev.stations
  /\ ~prev.stations[lastEv.to[1]].service
  /\ prev.stations[lastEv.to[1]].eventQueue # <<>>
  /\ prev.stations[lastEv.to[1]].eventQueue[1] # lastEv

\* C7: an event with a list of targets leaves what its copies, one for each
\* identity of the list, leave when they are applied in list order
BatchExpansionLaw ==
  Applied /\ IsMulti(lastEv) =>
    Outcome = Result(applyInOrder(prevWorld, Copies(lastEv)), prevWorld)

\* an event with two different targets changed the stations of both
ExpandedToTwoStations ==
  /\ Applied /\ IsMulti(lastEv) /\ Len(lastEv.to) = 2
  /\ lastEv.to[1] # lastEv.to[2]
  /\ \A i \in 1..2 :
       /\ lastEv.to[i] \in DOMAIN prev.stations
       /\ stations[lastEv.to[i]] # prev.stations[lastEv.to[i]]

\* C8: a batch leaves what its members leave when the router is applied to
\* them one after the other, also when a member is a batch or has a list of
\* targets
FoldLaw ==
  Applied /\ isBatchedEvent(lastEv) =>
    Outcome = Result(applyInOrder(prevWorld, lastEv.events), prevWorld)

\* a batch with a member that is a batch or has a list of targets changed
\* the registry
FoldedNestedBatch ==
  /\ Applied /\ isBatchedEvent(lastEv)
  /\ \E i \in DOMAIN lastEv.events :
       \/ isBatchedEvent(lastEv.events[i])
       \/ IsMulti(lastEv.events[i])
  /\ stations # prev.stations
  /\ ~raised

\* C9: a single-target event whose target has no entry in the registry
\* leaves the registry and every interpreter as they were and raises no error
UnknownTargetNoOp ==
  Applied /\ IsSingle(lastEv) /\ lastEv.to[1] \notin DOMAIN prev.stations =>
    /\ stations = prev.stations
    /\ interp = prev.interp
    /\ ~raised

\* C10: a registration sets the entry of its identity to the station it
\* carries and leaves every other entry as it was
RegistrationSetsEntry ==
  Applied /\ isRegisterEvent(lastEv) =>
    LET id == lastEv.payload.id
    IN  /\ DOMAIN stations = DOMAIN prev.stations \cup {id}
        /\ stations[id] = lastEv.payload
        /\ \A other \in DOMAIN prev.stations \ {id} :
             stations[other] = prev.stations[other]

\* a registration replaced a different entry of a registry with another
\* station in it
RegistrationOverwrote ==
  /\ Applied /\ isRegisterEvent(lastEv)
  /\ lastEv.payload.id \in DOMAIN prev.stations
  /\ prev.stations[lastEv.payload.id] # lastEv.payload
  /\ DOMAIN prev.stations # {lastEv.payload.id}

\* the identities an event with one target or a list of targets names
Targets(event) == Range(event.to)

\* C11: an event with one target or a list of targets leaves the entry and
\* the interpreter of every station it does not name as they were, adds no
\* entry and removes none, and hands the event to no interpreter of a
\* station it does not name
OnlyTargetsChange ==
  Applied /\ IsPlain(lastEv) =>
    LET r == stationsReducer(prevWorld, lastEv)
    IN  /\ DOMAIN stations = DOMAIN prev.stations
        /\ \A id \in AppIds \ Targets(lastEv) :
             /\ id \in DOMAIN stations => stations[id] = prev.stations[id]
             /\ interp[id] = prev.interp[id]
             /\ r.sent[id] = <<>>

\* an event changed a station it names while another station, which it does
\* not name, was live
TargetChangedBesideLive ==
  /\ Applied /\ IsPlain(lastEv)
  /\ \E t \in Targets(lastEv) \cap DOMAIN prev.stations :
       stations[t] # prev.stations[t]
  /\ \E id \in DOMAIN prev.stations \ Targets(lastEv) :
       prev.stations[id].service

\* C13: the router is a pure function: a dispatch changes no interpreter,
\* and the router applied once more to the registry and the event of the
\* dispatch returns the registry the dispatch returned
RouterIsPure ==
  Applied /\ ~raised =>
    /\ interp = prev.interp
    /\ stationsReducer(World(prev.stations, interp, EmptyLog), lastEv).stations
         = stations

----------------------------------------------------------------------------
(* Properties of the hook *)

\* the event the send function is to dispatch for an event of a component:
\* a type name and an event object without a target go to the component's
\* own id, a target that is given is kept
Normalized(id, event) ==
  IF event.shape = "string" THEN Single(event.type, Undefined, id)
  ELSE IF event.to.kind = "absent" THEN Single(event.type, event.value, id)
  ELSE IF event.to.kind = "list" THEN Multi(event.type, event.value, event.to.ids)
  ELSE Single(event.type, event.value, event.to.id)

Sent == lastOp.kind = "send"

\* C14: the event a component sends is dispatched in uniform shape: a type
\* name or an event object without a target as an event to the component's
\* own id, an event object with a target with that target, and an array as
\* one batch of the events of its members, in their order
UniformShape ==
  Sent =>
    lastEv = IF lastRaw.shape = "array"
             THEN Batched([i \in 1..Len(lastRaw.events) |->
                             Normalized(lastOp.id, lastRaw.events[i])])
             ELSE Normalized(lastOp.id, lastRaw)

\* C12: the hook has dispatched exactly one registration for every machine
\* that has mounted, however often the machine rendered or mounted again, and
\* none for a machine that has not mounted
ExactlyOneRegistration ==
  /\ mounted \subseteq DOMAIN stations
  /\ \A id \in AppIds :
       registrations[id] = IF id \in DOMAIN stations THEN 1 ELSE 0

\* a machine has mounted again, with events queued since its unmount, and
\* still has its one registration
RemountedRegisteredOnce ==
  /\ lastOp.kind = "mount" /\ lastOp.drained
  /\ registrations[lastOp.id] = 1


\* C15: no step removes an entry of the registry, and the unmount of a
\* component changes nothing but the service of its station, which it
\* clears: the queue and the state of the station, every other station and
\* every interpreter are after the unmount what they were before it
UnmountOnlyDetaches ==
  [][/\ DOMAIN stations \subseteq DOMAIN stations'
     /\ lastOp'.kind = "unmount" =>
          /\ lastOp'.id \in DOMAIN stations
          /\ stations' = [stations EXCEPT ![lastOp'.id].service = FALSE]
          /\ stations'[lastOp'.id].eventQueue = stations[lastOp'.id].eventQueue
          /\ stations'[lastOp'.id].state = stations[lastOp'.id].state
          /\ interp' = interp]_vars

\* a component whose machine had left its initial state has unmounted
UnmountedWithState ==
  /\ lastOp.kind = "unmount"
  /\ ~stations[lastOp.id].service
  /\ stations[lastOp.id].state # initialState(stations[lastOp.id].machine)


\* C16: when a machine that has a station mounts, the state stored in the
\* station is the state its previous interpreter was left in, and the new
\* interpreter starts from that state: after the mount it is in the state
\* the stored state and the queued events lead to
RemountResumes ==
  [][lastOp'.kind = "mount" /\ lastOp'.id \in DOMAIN stations =>
       /\ stations[lastOp'.id].state = interp[lastOp'.id]
       /\ interp'[lastOp'.id] =
            Replay(MachineOf(lastOp'.id), stations[lastOp'.id].state,
                   stations[lastOp'.id].eventQueue)]_vars

\* an input has mounted again with nothing queued and shows the state it
\* was left in, which is not the initial state
ResumedLeftState ==
  /\ lastOp.kind = "mount" /\ ~lastOp.drained
  /\ lastOp.id \in Regions
  /\ interp[lastOp.id] # initialState(MachineOf(lastOp.id))
  /\ interp[lastOp.id] = stations[lastOp.id].state


\* C18: the state stored in a station that is live and has nothing queued
\* is the current state of its interpreter
StoredStateIsCurrent ==
  \A id \in DOMAIN stations :
    stations[id].service /\ stations[id].eventQueue = <<>> =>
      stations[id].state = interp[id]

\* a live station has stored a state its interpreter reached through two or
\* more events, the last of which did not change the state
StoredAfterUnchanged ==
  /\ lastOp.kind = "dispatch" /\ IsSingle(lastEv)
  /\ lastEv.to[1] \in DOMAIN stations
  /\ stations[lastEv.to[1]].service
  /\ Len(sent[lastEv.to[1]]) >= 2
  /\ stations = prev.stations
  /\ stations[lastEv.to[1]].state # initialState(MachineOf(lastEv.to[1]))


\* C20: when the hook sets the service of a machine on its mount, or clears
\* it on its unmount, the registry has the station of the machine: neither
\* assignment fails on a missing station
AttachDetachOnEntry ==
  lastOp.kind \in {"mount", "unmount"} =>
    /\ ~raised
    /\ lastOp.id \in DOMAIN stations
    /\ stations[lastOp.id].service = (lastOp.kind = "mount")

\* State has mounted for the first time: the mount registered its station
\* and attached the interpreter to it
FirstMountAttached ==
  /\ lastOp.kind = "mount" /\ lastOp.id = "State"
  /\ lastEv = Register(NewStation("State"))
  /\ stations["State"].service
  /\ ~raised

----------------------------------------------------------------------------
(* Properties of the application *)

\* the value the input of a machine shows, or will show once it is mounted
\* and its queue is flushed
ValueOf(id) ==
  IF id \in mounted THEN interp[id].text
  ELSE IF id \in DOMAIN stations
  THEN Replay(MachineOf(id), stations[id].state, stations[id].eventQueue).text
  ELSE initialState(MachineOf(id)).text

\* the events the onChange handler of an input sends
OnChangeOf(id) == {ChangeEvent(id, value) : value \in Values}

\* C17: after a change of Country the values of Province, State and City
\* are empty, and after a change of Province or of State the value of City
\* is empty, each as shown or as it will show once the input is mounted and
\* its queue is flushed; a mount with its flush, an unmount and a render
\* keep these values
ClearingRule ==
  [][/\ lastOp'.kind = "dispatch" /\ lastEv' \in OnChangeOf("Country") =>
          \A id \in {"Province", "State", "City"} : ValueOf(id)' = ""
     /\ lastOp'.kind = "dispatch"
          /\ lastEv' \in OnChangeOf("Province") \cup OnChangeOf("State") =>
          ValueOf("City")' = ""
     /\ lastOp'.kind \in {"mount", "unmount", "render"} =>
          \A id \in InputIds : ValueOf(id)' = ValueOf(id)]_vars

\* Province or State, unmounted with a value, has mounted again and been
\* cleared by the one event a change of Country left in its queue
ClearedOnRemount ==
  /\ lastOp.kind = "mount" /\ lastOp.drained
  /\ lastOp.id \in Regions
  /\ drained.state.text # ""
  /\ drained.queue = <<Single("CHANGE", "", lastOp.id)>>
  /\ interp[lastOp.id].text = ""


\* the events of a type the interpreters of a machine have received
Delivered(id, type) ==
  Cardinality({i \in DOMAIN sent[id] : sent[id][i].type = type})

\* C19: the toggle starts in NO, every TOGGLE delivered to it flips it and
\* no other event changes it: the state stored in its station is YES exactly
\* when the number of TOGGLE events delivered to it is odd
ToggleParity ==
  ToggleId \in DOMAIN stations =>
    stations[ToggleId].state.mode =
      IF Delivered(ToggleId, "TOGGLE") % 2 = 1 THEN "YES" ELSE "NO"

\* the toggle is in YES after three TOGGLE events and an event of another
\* type
ThreeTogglesAndAnother ==
  /\ ToggleId \in DOMAIN stations
  /\ stations[ToggleId].state.mode = "YES"
  /\ Delivered(ToggleId, "TOGGLE") = 3
  /\ Len(sent[ToggleId]) > 3

====
